---- MODULE Spec2Model ----
(***************************************************************************)
(* Availability computation and booking lifecycle of the ProCalender       *)
(* backend.                                                                *)
(*                                                                         *)
(* Time is counted in whole minutes since the local midnight that starts a *)
(* Sunday (day 0); a JavaScript Date is the integer number of minutes, so  *)
(* the factor 60 * 1000 of the source (minutes to milliseconds) is 1 here. *)
(* One time zone without daylight-saving changes is assumed.  A mongoose   *)
(* document is a record; schema defaults and the pre('save') hook are      *)
(* modelled, the schema validators (required, enum, min, max) are not:     *)
(* the handlers are modelled as they are written.  There is one owner.     *)
(***************************************************************************)
EXTENDS Integers, Sequences, FiniteSets, TLC

\* ------------------------------------------------------------------ bounds
MaxWindows == 2
MaxBookings == 1
MaxBusy == 1
MaxStored == 1
MaxEvents == 2
MaxDeleteCalls == 2
MaxCalendarEvents == 2
MaxRequests == 2
MaxSlots == 6

\* ------------------------------------------------------------ Date helpers
MinutesPerDay == 24 * 60

DayNames ==
  <<"Sunday", "Monday", "Tuesday", "Wednesday", "Thursday", "Friday", "Saturday">>

\* Date.prototype.setHours(0, 0, 0, 0): local midnight of the date's day
StartOfDay(date) == (date \div MinutesPerDay) * MinutesPerDay

\* Date.prototype.getDay(): 0 = Sunday
GetDay(date) == (date \div MinutesPerDay) % 7

\* "HH:MM".split(':').map(Number) is the pair <<HH, MM>>;
\* new Date(date).setHours(HH, MM, 0, 0)
SetHours(date, hm) == StartOfDay(date) + hm[1] * 60 + hm[2]

\* date.setDate(date.getDate() + n): same time of day, n days later
AddDays(date, n) == date + n * MinutesPerDay

At(day, h, m) == day * MinutesPerDay + h * 60 + m

\* ------------------------------------------------------- interval predicate
\* The half-open predicate of the specification (section 4.1).
overlaps(aStart, aEnd, bStart, bEnd) == aStart < bEnd /\ bStart < aEnd

\* ---------------------------------------------- availabilityService.js
\* The three-way test of generateTimeSlots, used for bookings and for busy
\* periods alike, and again by GET /api/available-times.
SlotConflict(slotStart, slotEnd, otherStart, otherEnd) ==
  \/ (slotStart >= otherStart /\ slotStart < otherEnd)
  \/ (slotEnd > otherStart /\ slotEnd <= otherEnd)
  \/ (slotStart <= otherStart /\ slotEnd >= otherEnd)

hasBookingConflict(slotStart, slotEnd, bks) ==
  \E booking \in bks :
    SlotConflict(slotStart, slotEnd, booking.startTime, booking.endTime)

hasGoogleConflict(slotStart, slotEnd, busyPeriods) ==
  \E period \in busyPeriods :
    SlotConflict(slotStart, slotEnd, period.start, period.end)

\* "Move to next slot": slotStart = new Date(slotStart.getTime() + interval)
NextSlotStart_halfhour(slotStart, interval) == slotStart + 30

NextSlotStart(slotStart, interval) == slotStart + interval

\* the inner while loop over one window instance
RECURSIVE WindowSlots(_, _, _, _, _)
WindowSlots(slotStart, windowEnd, interval, bks, busyPeriods) ==
  IF ~(slotStart < windowEnd) THEN <<>>
  ELSE LET slotEnd == slotStart + interval IN
       IF slotEnd > windowEnd THEN <<>>
       ELSE (IF ~hasBookingConflict(slotStart, slotEnd, bks)
                /\ ~hasGoogleConflict(slotStart, slotEnd, busyPeriods)
             THEN <<[start |-> slotStart, end |-> slotEnd]>>
             ELSE <<>>)
            \o WindowSlots(NextSlotStart(slotStart, interval), windowEnd,
                           interval, bks, busyPeriods)

\* windows.filter(window => window.dayOfWeek === dayOfWeek)
dayWindows(wins, currentDate) ==
  SelectSeq(wins, LAMBDA w : w.dayOfWeek = DayNames[GetDay(currentDate) + 1])

windowStart(window, currentDate) == SetHours(currentDate, window.startHour)
windowEnd(window, currentDate) == SetHours(currentDate, window.endHour)

\* for (const window of dayWindows), in the stored order
RECURSIVE DaySlots(_, _, _, _, _)
DaySlots(dws, currentDate, interval, bks, busyPeriods) ==
  IF dws = <<>> THEN <<>>
  ELSE WindowSlots(windowStart(Head(dws), currentDate),
                   windowEnd(Head(dws), currentDate), interval, bks, busyPeriods)
       \o DaySlots(Tail(dws), currentDate, interval, bks, busyPeriods)

\* while (currentDate <= endDate)
RECURSIVE RangeSlots(_, _, _, _, _, _)
RangeSlots(currentDate, endDate, wins, interval, bks, busyPeriods) ==
  IF ~(currentDate <= endDate) THEN <<>>
  ELSE DaySlots(dayWindows(wins, currentDate), currentDate, interval, bks, busyPeriods)
       \o RangeSlots(AddDays(currentDate, 1), endDate, wins, interval, bks, busyPeriods)

generateTimeSlots(wins, bks, busyPeriods, startDate, endDate, durationMinutes) ==
  RangeSlots(StartOfDay(startDate), endDate, wins, durationMinutes, bks, busyPeriods)

\* Window.find({ ownerId: userId, active: true })
FindActiveWindows(wins) == SelectSeq(wins, LAMBDA w : w.active)

\* Booking.find({ ownerId, startTime >= startDate, endTime <= endDate,
\*                status != 'canceled' })
FindBookingsInRange(bks, startDate, endDate) ==
  {bks[i] : i \in {j \in DOMAIN bks :
      /\ bks[j].startTime >= startDate
      /\ bks[j].endTime <= endDate
      /\ bks[j].status # "canceled"}}

\* getGoogleCalendarBusyPeriods: [] without tokens or when the call throws
getGoogleCalendarBusyPeriods_uncaught(googleTokens, calendarOk, calendarBusy) ==
  IF ~googleTokens THEN {} ELSE calendarBusy

getGoogleCalendarBusyPeriods(googleTokens, calendarOk, calendarBusy) ==
  IF ~googleTokens THEN {}
  ELSE IF ~calendarOk THEN {}
  ELSE calendarBusy

getAvailableTimeSlots(wins, bks, googleTokens, calendarOk, calendarBusy, startDate, endDate, durationMinutes) ==
  generateTimeSlots(FindActiveWindows(wins),
                    FindBookingsInRange(bks, startDate, endDate),
                    getGoogleCalendarBusyPeriods(googleTokens, calendarOk, calendarBusy),
                    startDate, endDate, durationMinutes)

\* ------------------------------------- server.js GET /api/available-times
slotInterval == 30
DaysAhead == 14

\* Booking.find({ ownerId, status: 'confirmed', startTime >= new Date() })
FindConfirmedFromNow(bks, now) ==
  {bks[i] : i \in {j \in DOMAIN bks :
      bks[j].status = "confirmed" /\ bks[j].startTime >= now}}

\* the for loop over slotTime of one day's window
RECURSIVE RouteWindowTimes(_, _, _, _, _)
RouteWindowTimes(slotTime, endTime, now, meetingLength, existingBookings) ==
  IF ~(slotTime < endTime) THEN <<>>
  ELSE LET slotEndTime == slotTime + meetingLength
           skip == \/ slotTime <= now
                   \/ slotEndTime > endTime
                   \/ \E booking \in existingBookings :
                        SlotConflict(slotTime, slotEndTime,
                                     booking.startTime, booking.endTime)
       IN (IF skip THEN <<>> ELSE <<slotTime>>)
          \o RouteWindowTimes(slotTime + slotInterval, endTime, now,
                              meetingLength, existingBookings)

\* windows.find(w => w.dayOfWeek === dayNames[dayOfWeek]): the first match
RouteDayTimes(wins, date, now, meetingLength, existingBookings) ==
  LET dws == dayWindows(wins, date) IN
  IF dws = <<>> THEN <<>>
  ELSE RouteWindowTimes(SetHours(date, Head(dws).startHour),
                        SetHours(date, Head(dws).endHour),
                        now, meetingLength, existingBookings)

\* for (let i = 0; i < 14; i++); a date without times is deleted again
RECURSIVE RouteDays(_, _, _, _, _)
RouteDays(i, wins, now, meetingLength, existingBookings) ==
  IF ~(i < DaysAhead) THEN <<>>
  ELSE LET date == AddDays(now, i)
           times == RouteDayTimes(wins, date, now, meetingLength, existingBookings)
       IN (IF times = <<>> THEN <<>>
           ELSE <<[date |-> StartOfDay(date), times |-> times]>>)
          \o RouteDays(i + 1, wins, now, meetingLength, existingBookings)

availableTimes(wins, bks, now, meetingLength) ==
  RouteDays(0, wins, now, meetingLength, FindConfirmedFromNow(bks, now))

\* ------------------------------------------------------------------ state
VARIABLES
  windows,       \* Window collection of the owner, in stored order
  links,         \* Link collection: linkId -> document
  googleTokens,  \* whether the owner's User document holds googleTokens
  calendarBusy,  \* busy periods the calendar's freebusy query answers with
  bookings,      \* Booking collection: _id (index) -> document
  now,           \* new Date() / Date.now() of the requests
  events,        \* events the program inserted into the calendar: id -> event
  calendarEvents,    \* what events.list answers with (updated in the last 5 min)
  calendarWebhooks,  \* channel ids of the owner's User.calendarWebhooks
  tokens,        \* the stored User.googleTokens: expiry_date and access_token
  inflight,      \* the requests that are between two of their awaits
  lastCall,      \* the calendar call the last request made with googleTokens
  response       \* what the last request answered

vars == <<windows, links, googleTokens, calendarBusy, bookings, now, events,
          calendarEvents, calendarWebhooks, tokens, inflight, lastCall, response>>

\* ------------------------------------------------------------- credentials
\* "5 min buffer" of refreshGoogleToken: 300000 ms
RefreshMargin == 5

\* the lifetime of the access token a refresh returns
TokenLifetime == 60

\* refreshGoogleToken: !tokens.expiry_date || expiry_date <= Date.now() + 300000
isExpired(tk) == tk.expiry_date <= now + RefreshMargin

\* a calendar call made with credentials taken from the stored googleTokens;
\* expired tells whether the stored credential was expired when it was made
Call(api, tk) == [api |-> api, expired |-> isExpired(tk)]

NoCall == [api |-> "none", expired |-> FALSE]

\* googleTokens that are good for another hour
ValidTokens == [expiry_date |-> now + TokenLifetime, access_token |-> 0]

NoEvent == 0

\* a Booking document with the schema defaults (models/Booking.js)
BookingDoc(linkId, startTime, endTime, status) ==
  [linkId |-> linkId, startTime |-> startTime, endTime |-> endTime,
   status |-> status, approvalStatus |-> "pending",
   tentativeEventId |-> NoEvent, googleEventId |-> NoEvent,
   hasCalendarConflict |-> FALSE, conflictDetails |-> {}]

LinkDoc(meetingLength, bufferBefore, bufferAfter, requiresApproval, calendarIntegration) ==
  [meetingLength |-> meetingLength, bufferBefore |-> bufferBefore,
   bufferAfter |-> bufferAfter, requiresApproval |-> requiresApproval,
   calendarIntegration |-> calendarIntegration, usageCount |-> 0]

WindowDoc(dayOfWeek, startHour, endHour, active) ==
  [dayOfWeek |-> dayOfWeek, startHour |-> startHour, endHour |-> endHour,
   active |-> active]

\* --------------------------------------------- inputs of the slot queries
Monday == 1
Tuesday == 2

WindowChoices ==
  { WindowDoc("Monday", <<9, 0>>, <<12, 0>>, TRUE),
    WindowDoc("Monday", <<14, 0>>, <<16, 0>>, TRUE),
    WindowDoc("Tuesday", <<9, 0>>, <<10, 0>>, FALSE) }

BookingChoices ==
  << BookingDoc(1, At(Monday, 10, 0), At(Monday, 11, 0), "confirmed"),
     BookingDoc(1, At(Monday, 10, 0), At(Monday, 11, 0), "canceled"),
     BookingDoc(1, At(Monday, 10, 0), At(Monday, 10, 0), "confirmed"),
     BookingDoc(1, At(Monday, 10, 30), At(Monday, 11, 0), "confirmed") >>

BusyChoices ==
  { [start |-> At(Monday, 10, 45), end |-> At(Monday, 11, 15)],
    [start |-> At(Monday, 12, 0), end |-> At(Monday, 12, 10)] }

MeetingLengths == {30, 60}
BufferChoices == {<<0, 0>>, <<15, 0>>, <<0, 15>>}
NowChoices == {At(0, 12, 0), At(Monday, 9, 30)}
RangeChoices ==
  { <<At(Monday, 0, 0), At(Monday, 23, 59)>>,
    <<At(Monday, 8, 0), At(Tuesday, 23, 59)>>,
    <<At(Monday, 10, 30), At(Monday, 23, 59)>> }

\* sequences over S of length at most n
RECURSIVE SeqsUpTo(_, _)
SeqsUpTo(S, n) ==
  IF n = 0 THEN {<<>>}
  ELSE LET shorter == SeqsUpTo(S, n - 1)
       IN shorter \cup {Append(q, x) : q \in {r \in shorter : Len(r) = n - 1}, x \in S}

\* the documents of seq at the indices of idx, in index order
RECURSIVE Pick(_, _)
Pick(seq, idx) ==
  IF idx = {} THEN <<>>
  ELSE LET m == CHOOSE i \in idx : \A j \in idx : i <= j
       IN <<seq[m]>> \o Pick(seq, idx \ {m})

BookingSnapshots ==
  {Pick(BookingChoices, idx) :
     idx \in {x \in SUBSET DOMAIN BookingChoices : Cardinality(x) <= MaxBookings}}

InitSlots ==
  /\ windows \in SeqsUpTo(WindowChoices, MaxWindows)
  /\ \E ml \in MeetingLengths, buf \in BufferChoices :
       links = <<LinkDoc(ml, buf[1], buf[2], FALSE, FALSE)>>
  /\ googleTokens \in BOOLEAN
  /\ calendarBusy \in {x \in SUBSET BusyChoices : Cardinality(x) <= MaxBusy}
  /\ (~googleTokens => calendarBusy = {})  \* no calendar, nothing to answer
  /\ bookings \in BookingSnapshots
  /\ now \in NowChoices
  /\ events = <<>>
  /\ calendarEvents = {}
  /\ calendarWebhooks = {}
  /\ tokens = ValidTokens
  /\ inflight = <<>>
  /\ lastCall = NoCall
  /\ response = [op |-> "none"]

\* The slot queries read the collections and change none of them: a behaviour
\* of SpecSlots is one query on one snapshot of the collections.
\* bookingController.getAvailableSlots -> availabilityService.getAvailableTimeSlots
GetAvailableSlots ==
  \E linkId \in DOMAIN links, range \in RangeChoices,
     calendarOk \in (IF googleTokens THEN BOOLEAN ELSE {TRUE}) :
    /\ response.op = "none"
    /\ response' =
         [op |-> "getAvailableSlots", status |-> 200, linkId |-> linkId,
          startDate |-> range[1], endDate |-> range[2],
          calendarOk |-> calendarOk,
          busyPeriods |->
            getGoogleCalendarBusyPeriods(googleTokens, calendarOk, calendarBusy),
          data |-> getAvailableTimeSlots(windows, bookings, googleTokens,
                     calendarOk, calendarBusy, range[1], range[2],
                     links[linkId].meetingLength)]
    /\ lastCall' = IF googleTokens THEN Call("freebusy.query", tokens) ELSE NoCall
    /\ UNCHANGED <<windows, links, googleTokens, calendarBusy, bookings, now,
                   events, calendarEvents, calendarWebhooks, tokens, inflight>>

\* server.js GET /api/available-times/:linkId
GetAvailableTimes ==
  \E linkId \in DOMAIN links :
    /\ response.op = "none"
    /\ response' =
         IF Len(windows) = 0
         THEN [op |-> "availableTimes", status |-> 400, linkId |-> linkId]
         ELSE [op |-> "availableTimes", status |-> 200, linkId |-> linkId,
               meetingLength |-> links[linkId].meetingLength,
               availableTimes |->
                 availableTimes(windows, bookings, now, links[linkId].meetingLength)]
    /\ lastCall' = NoCall
    /\ UNCHANGED <<windows, links, googleTokens, calendarBusy, bookings, now,
                   events, calendarEvents, calendarWebhooks, tokens, inflight>>

NextSlots == GetAvailableSlots \/ GetAvailableTimes

SpecSlots == InitSlots /\ [][NextSlots]_vars

\* ------------------------------------------------- claims: slot generation
SlotsAnswered == response.op = "getAvailableSlots"
TimesAnswered == response.op = "availableTimes" /\ response.status = 200

AnsweredLink == links[response.linkId]

NonCanceled == {bookings[i] : i \in {j \in DOMAIN bookings : bookings[j].status # "canceled"}}

ActiveWindows == {windows[i] : i \in {j \in DOMAIN windows : windows[j].active}}

\* the days the range of the answered query covers
RangeDays == (response.startDate \div MinutesPerDay) .. (response.endDate \div MinutesPerDay)

\* the instance of window w on the day of date, or nothing when w is for
\* another day of the week
Instances(w, date) ==
  IF w.dayOfWeek = DayNames[GetDay(date) + 1]
  THEN {[start |-> windowStart(w, date), end |-> windowEnd(w, date)]}
  ELSE {}

BufferedStart(slot) == slot.start - AnsweredLink.bufferBefore
BufferedEnd(slot) == slot.end + AnsweredLink.bufferAfter

\* C1 (as claimed): every slot of the slot generator lies inside an instance of
\* an active window on the slot's date, and its buffered interval
\* [start - bufferBefore, end + bufferAfter) overlaps no non-canceled booking
\* and no supplied busy period.
C1_AsClaimed ==
  SlotsAnswered =>
    \A k \in DOMAIN response.data :
      LET slot == response.data[k] IN
      /\ \E w \in ActiveWindows : \E inst \in Instances(w, slot.start) :
           inst.start <= slot.start /\ slot.end <= inst.end
      /\ \A b \in NonCanceled :
           ~overlaps(BufferedStart(slot), BufferedEnd(slot), b.startTime, b.endTime)
      /\ \A p \in response.busyPeriods :
           ~overlaps(BufferedStart(slot), BufferedEnd(slot), p.start, p.end)

\* C5 (as claimed): no offered slot has a buffered span that extends outside
\* the window instance it was generated from.
C5_AsClaimed ==
  SlotsAnswered =>
    \A k \in DOMAIN response.data :
      LET slot == response.data[k] IN
      \E w \in ActiveWindows : \E inst \in Instances(w, slot.start) :
        /\ inst.start <= slot.start /\ slot.end <= inst.end
        /\ inst.start <= BufferedStart(slot) /\ BufferedEnd(slot) <= inst.end

\* C6 (as claimed): the availability query never returns a slot that starts
\* before the time at which the query runs.
C6_AsClaimed ==
  /\ SlotsAnswered =>
       \A k \in DOMAIN response.data : ~(response.data[k].start < now)
  /\ TimesAnswered =>
       \A d \in DOMAIN response.availableTimes :
         \A k \in DOMAIN response.availableTimes[d].times :
           ~(response.availableTimes[d].times[k] < now)

\* C7 (as claimed): the slots of the slot generator are in ascending order of
\* start time, whatever the stored order of the windows.
C7_AsClaimed ==
  SlotsAnswered =>
    \A i, j \in DOMAIN response.data :
      i < j => response.data[i].start <= response.data[j].start

\* the duration-aligned candidates of a window instance that fit inside it
Candidates(inst, duration) ==
  {[start |-> inst.start + k * duration, end |-> inst.start + (k + 1) * duration] :
     k \in {n \in 0 .. ((inst.end - inst.start) \div duration) :
              inst.start + (n + 1) * duration <= inst.end}}

\* C4 (as claimed): without buffers the slot generator returns exactly the
\* duration-aligned candidates of the matching window instances that fit
\* inside the window and overlap no non-canceled booking and no busy period.
C4_AsClaimed ==
  (SlotsAnswered /\ AnsweredLink.bufferBefore = 0 /\ AnsweredLink.bufferAfter = 0) =>
    {response.data[k] : k \in DOMAIN response.data} =
      UNION {UNION {
        {c \in Candidates(inst, AnsweredLink.meetingLength) :
           /\ \A b \in NonCanceled :
                ~overlaps(c.start, c.end, b.startTime, b.endTime)
           /\ \A p \in response.busyPeriods :
                ~overlaps(c.start, c.end, p.start, p.end)} :
        inst \in Instances(w, day * MinutesPerDay)} :
          w \in ActiveWindows, day \in RangeDays}

\* the slots generateTimeSlots takes from the instance of window w on a day
InstanceSlots(w, day) ==
  WindowSlots(windowStart(w, day * MinutesPerDay), windowEnd(w, day * MinutesPerDay),
              AnsweredLink.meetingLength,
              FindBookingsInRange(bookings, response.startDate, response.endDate),
              response.busyPeriods)

\* the active windows and the days of the range they are materialised on
MatchingInstances ==
  {p \in ActiveWindows \X RangeDays : p[1].dayOfWeek = DayNames[(p[2] % 7) + 1]}

Range(seq) == {seq[k] : k \in DOMAIN seq}

PairwiseDisjoint(slots) ==
  \A i, j \in DOMAIN slots :
    i < j => ~overlaps(slots[i].start, slots[i].end, slots[j].start, slots[j].end)

\* the slot that a start time offered by GET /api/available-times stands for
TimesAsSlots(times) ==
  [k \in DOMAIN times |->
     [start |-> times[k], end |-> times[k] + response.meetingLength]]

CalendarUnavailable == ~googleTokens \/ ~response.calendarOk

\* C15: whenever the calendar is unavailable the busy-period lookup yields
\* no busy period, and the slot query still answers 200 with the slots that
\* the windows and the bookings alone give.
C15_BusyLookupDegrades ==
  SlotsAnswered =>
    /\ response.status = 200
    /\ CalendarUnavailable =>
         /\ response.busyPeriods = {}
         /\ response.data =
              generateTimeSlots(FindActiveWindows(windows),
                FindBookingsInRange(bookings, response.startDate, response.endDate),
                {}, response.startDate, response.endDate,
                AnsweredLink.meetingLength)

\* a query answered with slots while the calendar call failed, although the
\* calendar holds a busy period that overlaps one of the returned slots
C15_Witness ==
  /\ SlotsAnswered
  /\ googleTokens
  /\ ~response.calendarOk
  /\ \E k \in DOMAIN response.data : \E p \in calendarBusy :
       overlaps(response.data[k].start, response.data[k].end, p.start, p.end)

\* ------------------------------------------------------ booking lifecycle
\* bookingSchema.pre('save') on a new document
PreSave(doc) ==
  IF doc.linkId \in DOMAIN links /\ links[doc.linkId].requiresApproval
  THEN [doc EXCEPT !.approvalStatus = "pending"]
  ELSE [doc EXCEPT !.approvalStatus = "approved", !.status = "confirmed"]

\* calendarService.createEvent(calendarId, eventData, isTentative): the event
\* the gateway is asked to insert
ServiceEvent(isTentative) ==
  IF isTentative
  THEN [status |-> "tentative", transparency |-> "transparent", deleted |-> FALSE, deleteCalls |-> 0]
  ELSE [status |-> "confirmed", transparency |-> "opaque", deleted |-> FALSE, deleteCalls |-> 0]

\* calendar.events.insert of an event body without status or transparency:
\* the calendar's defaults
InsertedEvent ==
  [status |-> "confirmed", transparency |-> "opaque", deleted |-> FALSE, deleteCalls |-> 0]

\* calendar.events.delete / calendarService.deleteEvent
\* deleteCalls counts the delete requests the calendar received for the event
DeleteEvent(evs, eventId, gatewayOk) ==
  IF eventId \in DOMAIN evs
  THEN [evs EXCEPT ![eventId].deleted = @ \/ gatewayOk,
                   ![eventId].deleteCalls = @ + 1]
  ELSE evs

\* the cap on the delete requests one event receives
CanDelete(eventId) ==
  eventId \in DOMAIN events => events[eventId].deleteCalls < MaxDeleteCalls

UnknownLink == Len(links) + 1

CreateTimes ==
  { <<At(Monday, 10, 0), At(Monday, 11, 0)>>,
    <<At(Monday, 11, 0), At(Monday, 10, 0)>> }

SelectedTimes == {At(Monday, 10, 0)}

Init ==
  /\ windows = <<WindowDoc("Monday", <<9, 0>>, <<12, 0>>, TRUE)>>
  /\ \E requiresApproval \in BOOLEAN, calendarIntegration \in BOOLEAN :
       links = <<LinkDoc(60, 0, 0, requiresApproval, calendarIntegration)>>
  /\ googleTokens \in BOOLEAN
  /\ calendarBusy = {}
  /\ bookings = <<>>
  /\ now = At(0, 12, 0)
  /\ events = <<>>
  /\ calendarEvents = {}
  /\ calendarWebhooks = {}
  /\ tokens = ValidTokens
  /\ inflight = <<>>
  /\ lastCall = NoCall
  /\ response = [op |-> "none"]

\* bookingController.createBooking
CreateBooking ==
  \E linkId \in DOMAIN links \cup {UnknownLink}, t \in CreateTimes,
     gatewayOk \in BOOLEAN :
    /\ Len(bookings) < MaxStored
    /\ Len(events) < MaxEvents
    /\ IF linkId \notin DOMAIN links
       THEN /\ response' = [op |-> "createBooking", status |-> 404,
                            id |-> 0]
            /\ UNCHANGED <<bookings, events>>
       ELSE LET bookingLink == links[linkId]
                approvalStatus ==
                  IF bookingLink.requiresApproval THEN "pending" ELSE "confirmed"
                created ==
                  PreSave([BookingDoc(linkId, t[1], t[2], "confirmed")
                             EXCEPT !.approvalStatus = approvalStatus])
                id == Len(bookings) + 1
                eventId == Len(events) + 1
            IN  IF ~bookingLink.calendarIntegration
                THEN /\ bookings' = Append(bookings, created)
                     /\ events' = events
                     /\ response' = [op |-> "createBooking", status |-> 201,
                                     id |-> id]
                ELSE IF gatewayOk
                THEN /\ events' =
                          Append(events, ServiceEvent(approvalStatus = "pending"))
                     /\ bookings' = Append(bookings,
                          [created EXCEPT !.tentativeEventId = eventId])
                     /\ response' = [op |-> "createBooking", status |-> 201,
                                     id |-> id]
                ELSE /\ bookings' = Append(bookings, created)
                     /\ events' = events
                     /\ response' = [op |-> "createBooking", status |-> 500,
                                     id |-> id]
    /\ lastCall' = NoCall
    /\ UNCHANGED <<windows, links, googleTokens, calendarBusy, now,
                   calendarEvents, calendarWebhooks, tokens, inflight>>

\* server.js POST /api/schedule/:linkId
ScheduleMeeting ==
  \E linkId \in DOMAIN links \cup {UnknownLink}, selectedTime \in SelectedTimes,
     gatewayOk \in BOOLEAN :
    /\ Len(bookings) < MaxStored
    /\ Len(events) < MaxEvents
    /\ IF linkId \notin DOMAIN links
       THEN /\ response' = [op |-> "schedule", status |-> 404,
                            id |-> 0]
            /\ UNCHANGED <<bookings, events, links>>
       ELSE LET link == links[linkId]
                startTime == selectedTime
                endTime == startTime + link.meetingLength
                booking == PreSave(BookingDoc(linkId, startTime, endTime, "confirmed"))
                id == Len(bookings) + 1
                eventId == Len(events) + 1
            IN  /\ links' = [links EXCEPT ![linkId].usageCount = @ + 1]
                /\ IF googleTokens /\ gatewayOk
                   THEN /\ events' = Append(events, InsertedEvent)
                        /\ bookings' = Append(bookings,
                             [booking EXCEPT !.googleEventId = eventId])
                        /\ response' = [op |-> "schedule", status |-> 201,
                                        id |-> id]
                   ELSE /\ events' = events
                        /\ bookings' = Append(bookings, booking)
                        /\ response' = [op |-> "schedule", status |-> 201,
                                        id |-> id]
    /\ lastCall' = IF linkId \in DOMAIN links /\ googleTokens
                   THEN Call("events.insert", tokens) ELSE NoCall
    /\ UNCHANGED <<windows, googleTokens, calendarBusy, now,
                   calendarEvents, calendarWebhooks, tokens, inflight>>

UnknownBooking == Len(bookings) + 1

\* Approve, as the specification describes it (section 4.3): valid only from
\* pending and, canceled being terminal, not on a canceled booking; the tentative event, if any, is promoted in place by
\* calendarService.confirmEvent; a gateway failure leaves the transition
\* committed.
ApproveBooking ==
  \E id \in DOMAIN bookings, gatewayOk \in BOOLEAN :
    LET booking == bookings[id]
        eventId == booking.tentativeEventId
    IN  /\ IF booking.approvalStatus # "pending" \/ booking.status = "canceled"
           THEN /\ response' = [op |-> "approve", status |-> 400,
                                id |-> id]
                /\ UNCHANGED <<bookings, events>>
           ELSE /\ bookings' = [bookings EXCEPT ![id].approvalStatus = "approved",
                                                ![id].status = "confirmed"]
                /\ events' =
                     IF eventId \in DOMAIN events /\ gatewayOk
                     THEN [events EXCEPT ![eventId].status = "confirmed",
                                         ![eventId].transparency = "opaque"]
                     ELSE events
                /\ response' = [op |-> "approve", status |-> 200,
                                id |-> id]
        /\ lastCall' = NoCall
        /\ UNCHANGED <<windows, links, googleTokens, calendarBusy, now,
                       calendarEvents, calendarWebhooks, tokens, inflight>>

\* Reject, as the specification describes it (section 4.3): valid only from
\* pending and not on a canceled booking; the tentative event is deleted by calendarService.deleteEvent and
\* its id cleared; a gateway failure leaves the id unchanged.
RejectBooking ==
  \E id \in DOMAIN bookings, gatewayOk \in BOOLEAN :
    LET booking == bookings[id]
        eventId == booking.tentativeEventId
    IN  /\ IF booking.approvalStatus # "pending" \/ booking.status = "canceled"
           THEN /\ response' = [op |-> "reject", status |-> 400,
                                id |-> id]
                /\ UNCHANGED <<bookings, events>>
           ELSE /\ bookings' =
                     [bookings EXCEPT ![id].approvalStatus = "rejected",
                                      ![id].tentativeEventId =
                                          IF gatewayOk THEN NoEvent ELSE @]
                /\ CanDelete(eventId)
                /\ events' = DeleteEvent(events, eventId, gatewayOk)
                /\ response' = [op |-> "reject", status |-> 200,
                                id |-> id]
        /\ lastCall' = NoCall
        /\ UNCHANGED <<windows, links, googleTokens, calendarBusy, now,
                       calendarEvents, calendarWebhooks, tokens, inflight>>

\* POST /api/google-calendar/events (createEvent): inserts the event and, when
\* the body names a booking, records the event on that booking
CreateEvent ==
  \E bookingId \in {0} \cup DOMAIN bookings \cup {UnknownBooking},
     gatewayOk \in BOOLEAN :
    /\ Len(events) < MaxEvents
    /\ IF ~googleTokens \/ ~gatewayOk
       THEN /\ response' = [op |-> "createEvent", status |-> 500,
                            id |-> bookingId]
            /\ UNCHANGED <<bookings, events>>
       ELSE LET eventId == Len(events) + 1
            IN  /\ events' = Append(events, InsertedEvent)
                /\ bookings' =
                     IF bookingId \in DOMAIN bookings
                     THEN [bookings EXCEPT ![bookingId].googleEventId = eventId,
                                           ![bookingId].status = "confirmed",
                                           ![bookingId].hasCalendarConflict = FALSE,
                                           ![bookingId].conflictDetails = {}]
                     ELSE bookings
                /\ response' = [op |-> "createEvent", status |-> 201,
                                id |-> bookingId]
    /\ lastCall' = IF googleTokens THEN Call("events.insert", tokens) ELSE NoCall
    /\ UNCHANGED <<windows, links, googleTokens, calendarBusy, now,
                   calendarEvents, calendarWebhooks, tokens, inflight>>

StatusValues == {"confirmed", "canceled", "completed"}

\* server.js PUT /api/meetings/:meetingId
UpdateMeetingStatus ==
  \E meetingId \in DOMAIN bookings \cup {UnknownBooking},
     status \in StatusValues, gatewayOk \in BOOLEAN :
    /\ IF meetingId \notin DOMAIN bookings
       THEN /\ response' = [op |-> "updateMeeting", status |-> 404,
                            id |-> meetingId]
            /\ UNCHANGED <<bookings, events>>
       ELSE LET meeting == bookings[meetingId]
            IN  /\ bookings' = [bookings EXCEPT ![meetingId].status = status]
                /\ IF status = "canceled" /\ meeting.googleEventId # NoEvent
                      /\ googleTokens
                   THEN /\ CanDelete(meeting.googleEventId)
                        /\ events' = DeleteEvent(events, meeting.googleEventId,
                                                  gatewayOk)
                   ELSE events' = events
                /\ response' = [op |-> "updateMeeting", status |-> 200,
                                id |-> meetingId]
    /\ lastCall' = IF /\ meetingId \in DOMAIN bookings
                      /\ status = "canceled"
                      /\ bookings[meetingId].googleEventId # NoEvent
                      /\ googleTokens
                   THEN Call("events.delete", tokens) ELSE NoCall
    /\ UNCHANGED <<windows, links, googleTokens, calendarBusy, now,
                   calendarEvents, calendarWebhooks, tokens, inflight>>

Next ==
  \/ CreateBooking
  \/ ScheduleMeeting
  \/ ApproveBooking
  \/ RejectBooking
  \/ CreateEvent
  \/ UpdateMeetingStatus

Spec == Init /\ [][Next]_vars

\* ----------------------------------------------- claims: booking lifecycle
\* the last request stored a booking and answered 201
Created ==
  /\ response.op \in {"createBooking", "schedule"}
  /\ response.status = 201

CreatedBooking == bookings[response.id]

\* the event of the program that an id names is tentative: transparent, so it
\* does not block time
IsTentativeEvent(eventId) ==
  /\ eventId \in DOMAIN events
  /\ events[eventId].status = "tentative"
  /\ events[eventId].transparency = "transparent"

IsConfirmedEvent(eventId) ==
  /\ eventId \in DOMAIN events
  /\ events[eventId].status = "confirmed"
  /\ events[eventId].transparency = "opaque"

\* C8 (as claimed): a booking just created through a Link that requires
\* approval is stored with approvalStatus = pending and without status =
\* confirmed; the event requested for it is tentative and its id is kept in
\* tentativeEventId, so no event id is recorded as the confirmed one.  (Read
\* in the code's favour: nothing is asked about the event when the gateway
\* gave none.)
C8_AsClaimed ==
  (Created /\ links[CreatedBooking.linkId].requiresApproval) =>
    /\ CreatedBooking.approvalStatus = "pending"
    /\ CreatedBooking.status # "confirmed"
    /\ CreatedBooking.googleEventId = NoEvent
    /\ (CreatedBooking.tentativeEventId # NoEvent =>
          IsTentativeEvent(CreatedBooking.tentativeEventId))

\* C9 (as claimed): a booking just created through a Link with
\* requiresApproval = false is stored with approvalStatus = approved and
\* status = confirmed, records no tentative event id, and the event id it
\* records is that of a confirmed event, on both creation paths.  (Read in the
\* code's favour: a creation that got no event from the gateway is not held
\* to "exactly one".)
C9_AsClaimed ==
  (Created /\ ~links[CreatedBooking.linkId].requiresApproval) =>
    /\ CreatedBooking.approvalStatus = "approved"
    /\ CreatedBooking.status = "confirmed"
    /\ CreatedBooking.tentativeEventId = NoEvent
    /\ (CreatedBooking.googleEventId # NoEvent =>
          IsConfirmedEvent(CreatedBooking.googleEventId))

\* C10 (as claimed): in every step, approvalStatus changes only on a pending
\* booking; a booking whose rejection deleted the tentative event has its
\* tentativeEventId cleared; and a rejected booking stays rejected and no
\* confirmed event is recorded for it by any later operation.
C10_Step ==
  \A id \in DOMAIN bookings :
    /\ bookings'[id].approvalStatus # bookings[id].approvalStatus =>
         bookings[id].approvalStatus = "pending"
    /\ (/\ bookings[id].approvalStatus = "pending"
        /\ bookings'[id].approvalStatus = "rejected"
        /\ bookings[id].tentativeEventId \in DOMAIN events
        /\ events'[bookings[id].tentativeEventId].deleted) =>
         bookings'[id].tentativeEventId = NoEvent
    /\ bookings[id].approvalStatus = "rejected" =>
         /\ bookings'[id].approvalStatus = "rejected"
         /\ bookings'[id].googleEventId \in {NoEvent, bookings[id].googleEventId}

C10_AsClaimed == [][C10_Step]_vars

\* the step is a PUT /api/meetings/:meetingId that asked for canceled on id
CancelStep(id) ==
  /\ response'.op = "updateMeeting"
  /\ response'.status = 200
  /\ response'.id = id
  /\ bookings'[id].status = "canceled"

\* the events a booking holds, under either of its two event ids
HeldEvents(booking) ==
  {booking.tentativeEventId, booking.googleEventId} \cap DOMAIN events

\* C11 (as claimed): canceling a booking that is already canceled, and whose
\* events the calendar has already deleted, changes neither the booking nor
\* the calendar: no further delete request reaches the gateway.
C11_Step ==
  \A id \in DOMAIN bookings :
    (/\ bookings[id].status = "canceled"
     /\ \A eventId \in HeldEvents(bookings[id]) : events[eventId].deleted
     /\ CancelStep(id)) =>
      /\ bookings' = bookings
      /\ events' = events

C11_AsClaimed == [][C11_Step]_vars

\* C12 (as claimed): when a cancel has been answered, the booking is canceled
\* and the deletion of every event it holds, tentative or confirmed, has been
\* requested from the gateway.
C12_AsClaimed ==
  (/\ response.op = "updateMeeting"
   /\ response.status = 200
   /\ bookings[response.id].status = "canceled") =>
    \A eventId \in HeldEvents(bookings[response.id]) :
      events[eventId].deleteCalls > 0

\* C13 (as claimed): canceled is terminal; no step changes the status of a
\* canceled booking.
C13_Step ==
  \A id \in DOMAIN bookings :
    bookings[id].status = "canceled" => bookings'[id].status = "canceled"

C13_AsClaimed == [][C13_Step]_vars

\* C14 (as claimed): a creation that stored its booking does not fail the
\* request, whatever the gateway did: the answer is 201, never an error.
C14_AsClaimed ==
  (/\ response.op \in {"createBooking", "schedule"}
   /\ response.id \in DOMAIN bookings) =>
    response.status = 201

\* ----------------------------------------------------------- reconciliation
\* googleCalendarController.js, processCalendarUpdate: the overlap test of
\* the events filter
EventConflict(eventStart, eventEnd, bookingStart, bookingEnd) ==
  \/ (eventStart <= bookingStart /\ eventEnd > bookingStart)
  \/ (eventStart < bookingEnd /\ eventEnd >= bookingEnd)
  \/ (eventStart >= bookingStart /\ eventEnd <= bookingEnd)

\* conflicts.map(event => ({eventId, summary, start, end}))
ConflictDetail(event) ==
  [eventId |-> event.id, start |-> event.start, end |-> event.end]

\* the body of processCalendarUpdate after events.list answered
processCalendarUpdate(bks, evs, date) ==
  [id \in DOMAIN bks |->
     LET booking == bks[id]
         conflicts ==
           {event \in evs :
              EventConflict(event.start, event.end,
                            booking.startTime, booking.endTime)}
     IN  IF booking.startTime > date /\ conflicts # {}
         THEN [booking EXCEPT
                 !.hasCalendarConflict = TRUE,
                 !.conflictDetails = {ConflictDetail(event) : event \in conflicts}]
         ELSE booking]

CalendarEventChoices ==
  { [id |-> "overlapping", start |-> At(Monday, 10, 30), end |-> At(Monday, 11, 30)],
    [id |-> "touching", start |-> At(Monday, 11, 0), end |-> At(Monday, 12, 0)],
    [id |-> "instant", start |-> At(Monday, 11, 0), end |-> At(Monday, 11, 0)],
    [id |-> "apart", start |-> At(Monday, 8, 0), end |-> At(Monday, 9, 0)] }

ReconcileNows == {At(0, 12, 0), At(Monday, 10, 15)}

ChannelIds == {"channel-1", "channel-2", "channel-3"}

\* user.calendarWebhooks.filter(wh => wh.channelId !== channelId)
removeWebhook_all(webhooks, channelId) == {}
removeWebhook(webhooks, channelId) == webhooks \ {channelId}

InitReconcile ==
  /\ windows = <<>>
  /\ links = <<LinkDoc(60, 0, 0, FALSE, FALSE)>>
  /\ googleTokens = TRUE
  /\ calendarBusy = {}
  /\ bookings \in BookingSnapshots
  /\ now \in ReconcileNows
  /\ events = <<>>
  /\ calendarEvents \in
       {x \in SUBSET CalendarEventChoices : Cardinality(x) <= MaxCalendarEvents}
  /\ calendarWebhooks = {"channel-1", "channel-2"}
  /\ tokens = ValidTokens
  /\ inflight = <<>>
  /\ lastCall = NoCall
  /\ response = [op |-> "none"]

ResourceStates == {"sync", "exists", "not_exists"}

\* googleCalendarController.handleWebhook; the answer is 200 before anything
\* is looked at.  reconciled records that processCalendarUpdate ran to its end.
HandleWebhook ==
  \E tokenOk \in BOOLEAN, channelId \in ChannelIds,
     resourceState \in ResourceStates, gatewayOk \in BOOLEAN :
    LET known == tokenOk /\ channelId \in calendarWebhooks
        reconciles == known /\ resourceState = "exists" /\ googleTokens /\ gatewayOk
    IN  /\ response' = [op |-> "webhook", status |-> 200,
                        tokenOk |-> tokenOk, channelId |-> channelId,
                        resourceState |-> resourceState, reconciled |-> reconciles]
        /\ bookings' = IF reconciles
                       THEN processCalendarUpdate(bookings, calendarEvents, now)
                       ELSE bookings
        /\ calendarWebhooks' = IF known /\ resourceState = "not_exists"
                               THEN removeWebhook(calendarWebhooks, channelId)
                               ELSE calendarWebhooks
        /\ lastCall' = IF known /\ resourceState = "exists" /\ googleTokens
                       THEN Call("events.list", tokens) ELSE NoCall
        /\ UNCHANGED <<windows, links, googleTokens, calendarBusy, now, events,
                       calendarEvents, tokens, inflight>>

\* the owner edits the calendar: events.list will answer with other events
CalendarChanges ==
  /\ calendarEvents' \in
       {x \in SUBSET CalendarEventChoices : Cardinality(x) <= MaxCalendarEvents}
  /\ calendarEvents' # calendarEvents
  /\ response' = [op |-> "none"]
  /\ UNCHANGED <<windows, links, googleTokens, calendarBusy, bookings, now,
                 events, calendarWebhooks, tokens, inflight, lastCall>>

NextReconcile == HandleWebhook \/ CalendarChanges

SpecReconcile == InitReconcile /\ [][NextReconcile]_vars

\* ------------------------------------------------- claims: reconciliation
\* C2 (as claimed): after a reconciliation over bookings that carried no
\* conflict mark, an upcoming confirmed booking lists an external event as conflicting
\* exactly when the two intervals overlap by the half-open predicate; an
\* event that only touches an endpoint of the booking, zero-length or not,
\* is not listed.
C2_AsClaimed ==
  (response.op = "webhook" /\ response.reconciled) =>
    \A id \in DOMAIN bookings : \A event \in calendarEvents :
      (bookings[id].startTime > now /\ bookings[id].status = "confirmed") =>
        (ConflictDetail(event) \in bookings[id].conflictDetails
           <=> overlaps(event.start, event.end,
                        bookings[id].startTime, bookings[id].endTime))

\* ------------------------------------------- credential refresh, stepwise
\* refreshGoogleToken: the credentials oauth2Client.refreshAccessToken() hands
\* request r; every refresh returns an access token of its own
RefreshedTokens(r) == [expiry_date |-> now + TokenLifetime, access_token |-> r]

TokenChoices ==
  { [expiry_date |-> now - 10, access_token |-> 0],
    [expiry_date |-> now + 3, access_token |-> 0],
    ValidTokens }

InitCredential ==
  /\ windows = <<WindowDoc("Monday", <<9, 0>>, <<12, 0>>, TRUE)>>
  /\ links = <<LinkDoc(60, 0, 0, FALSE, FALSE)>>
  /\ googleTokens = TRUE
  /\ calendarBusy \in {x \in SUBSET BusyChoices : Cardinality(x) <= MaxBusy}
  /\ bookings = <<>>
  /\ now = At(0, 12, 0)
  /\ events = <<>>
  /\ calendarEvents = {}
  /\ calendarWebhooks = {"channel-1"}
  /\ tokens \in TokenChoices
  /\ inflight = <<>>
  /\ lastCall = NoCall
  /\ response = [op |-> "none"]

\* GET /api/google-calendar/events (getEvents) up to its first await that
\* leaves the process: getCalendarClient reads the user, refreshGoogleToken
\* tests the expiry and either starts refreshAccessToken or returns the stored
\* tokens, with which events.list is called
BeginGetEvents ==
  /\ Len(inflight) < MaxRequests
  /\ googleTokens
  /\ IF isExpired(tokens)
     THEN /\ inflight' = Append(inflight, [pc |-> "refreshing", tokens |-> tokens])
          /\ lastCall' = lastCall
     ELSE /\ inflight' = Append(inflight, [pc |-> "listing", tokens |-> tokens])
          /\ lastCall' = Call("events.list", tokens)
  /\ UNCHANGED <<windows, links, googleTokens, calendarBusy, bookings, now,
                 events, calendarEvents, calendarWebhooks, tokens, response>>

\* refreshAccessToken answers request r: the credentials are stored on the
\* user (user.googleTokens = credentials; user.save()) and events.list is
\* called with them; a failed refresh ends the request with 401
RefreshReturns ==
  \E r \in DOMAIN inflight, refreshOk \in BOOLEAN :
    /\ inflight[r].pc = "refreshing"
    /\ IF refreshOk
       THEN /\ tokens' = RefreshedTokens(r)
            /\ inflight' = [inflight EXCEPT ![r].pc = "listing",
                                            ![r].tokens = RefreshedTokens(r)]
            /\ lastCall' = Call("events.list", RefreshedTokens(r))
            /\ response' = response
       ELSE /\ tokens' = tokens
            /\ inflight' = [inflight EXCEPT ![r].pc = "done"]
            /\ lastCall' = NoCall
            /\ response' = [op |-> "getEvents", status |-> 401, request |-> r]
    /\ UNCHANGED <<windows, links, googleTokens, calendarBusy, bookings, now,
                   events, calendarEvents, calendarWebhooks>>

\* events.list answers request r
ListReturns ==
  \E r \in DOMAIN inflight, gatewayOk \in BOOLEAN :
    /\ inflight[r].pc = "listing"
    /\ inflight' = [inflight EXCEPT ![r].pc = "done"]
    /\ response' = [op |-> "getEvents",
                    status |-> IF gatewayOk THEN 200 ELSE 500, request |-> r]
    /\ UNCHANGED <<windows, links, googleTokens, calendarBusy, bookings, now,
                   events, calendarEvents, calendarWebhooks, tokens, lastCall>>

NextCredential ==
  \/ BeginGetEvents
  \/ RefreshReturns
  \/ ListReturns
  \/ GetAvailableSlots
  \/ HandleWebhook

SpecCredential == InitCredential /\ [][NextCredential]_vars

\* -------------------------------------------------- claims: credentials
\* C16 (as claimed): no calendar call is made while the stored credential is
\* expired or within the five-minute margin: the credential is refreshed and
\* stored first.
C16_AsClaimed == lastCall.api # "none" => ~lastCall.expired

\* C17 (as claimed): at most one refresh with the owner's refresh token is in
\* flight at any time.
C17_AsClaimed ==
  Cardinality({r \in DOMAIN inflight : inflight[r].pc = "refreshing"}) <= 1

\* --------------------------------- mutations of one booking, await by await
\* what findById answers once findByIdAndDelete has removed the document
NoDoc == [removed |-> TRUE]

\* a booking made by POST /api/schedule/:linkId with its calendar event
ScheduledBooking(eventId) ==
  [PreSave(BookingDoc(1, At(Monday, 10, 0), At(Monday, 11, 0), "confirmed"))
     EXCEPT !.googleEventId = eventId]

InitConcurrent ==
  /\ windows = <<WindowDoc("Monday", <<9, 0>>, <<12, 0>>, TRUE)>>
  /\ links = <<LinkDoc(60, 0, 0, FALSE, FALSE)>>
  /\ googleTokens = TRUE
  /\ calendarBusy = {}
  /\ \E eventId \in {NoEvent, 1} :
       /\ bookings = <<ScheduledBooking(eventId)>>
       /\ events = IF eventId = NoEvent THEN <<>> ELSE <<InsertedEvent>>
  /\ now = At(0, 12, 0)
  /\ calendarEvents = {}
  /\ calendarWebhooks = {}
  /\ tokens = ValidTokens
  /\ inflight = <<>>
  /\ lastCall = NoCall
  /\ response = [op |-> "none"]

\* PUT and DELETE /api/meetings/:meetingId up to "await Booking.findById":
\* the request holds the document as it read it
BeginMeetingRequest ==
  \E op \in {"put", "delete"}, meetingId \in DOMAIN bookings,
     status \in StatusValues :
    /\ Len(inflight) < MaxRequests
    /\ op = "delete" => status = "canceled"
    /\ IF bookings[meetingId] = NoDoc
       THEN /\ inflight' = inflight
            /\ response' = [op |-> op, status |-> 404, id |-> meetingId]
       ELSE /\ inflight' = Append(inflight,
                 [op |-> op, pc |-> "read", id |-> meetingId, status |-> status,
                  meeting |-> bookings[meetingId], answered |-> 0])
            /\ response' = response
    /\ UNCHANGED <<windows, links, googleTokens, calendarBusy, bookings, now,
                   events, calendarEvents, calendarWebhooks, tokens, lastCall>>

\* PUT: meeting.status = status; await meeting.save().  save() writes the
\* modified path whatever the stored status has become, and fails when the
\* document is gone
SaveMeeting ==
  \E r \in DOMAIN inflight :
    LET req == inflight[r] IN
    /\ req.op = "put" /\ req.pc = "read"
    /\ IF bookings[req.id] = NoDoc
       THEN /\ bookings' = bookings
            /\ inflight' = [inflight EXCEPT ![r].pc = "done", ![r].answered = 500]
            /\ response' = [op |-> "put", status |-> 500, id |-> req.id]
       ELSE /\ bookings' = IF req.meeting.status = req.status THEN bookings
                           ELSE [bookings EXCEPT ![req.id].status = req.status]
            /\ inflight' = [inflight EXCEPT ![r].pc = "saved"]
            /\ response' = response
    /\ UNCHANGED <<windows, links, googleTokens, calendarBusy, now, events,
                   calendarEvents, calendarWebhooks, tokens, lastCall>>

\* PUT after the save: the event of the document as it was read is deleted
\* when the request cancels, and the request answers 200
FinishUpdate ==
  \E r \in DOMAIN inflight, gatewayOk \in BOOLEAN :
    LET req == inflight[r]
        deletes == /\ req.status = "canceled"
                   /\ req.meeting.googleEventId # NoEvent
                   /\ googleTokens
    IN
    /\ req.op = "put" /\ req.pc = "saved"
    /\ IF deletes
       THEN /\ CanDelete(req.meeting.googleEventId)
            /\ events' = DeleteEvent(events, req.meeting.googleEventId, gatewayOk)
            /\ lastCall' = Call("events.delete", tokens)
       ELSE /\ events' = events
            /\ lastCall' = NoCall
    /\ inflight' = [inflight EXCEPT ![r].pc = "done", ![r].answered = 200]
    /\ response' = [op |-> "put", status |-> 200, id |-> req.id]
    /\ UNCHANGED <<windows, links, googleTokens, calendarBusy, bookings, now,
                   calendarEvents, calendarWebhooks, tokens>>

\* DELETE after findById: the event of the document as it was read is deleted
DeleteMeetingEvent ==
  \E r \in DOMAIN inflight, gatewayOk \in BOOLEAN :
    LET req == inflight[r] IN
    /\ req.op = "delete" /\ req.pc = "read"
    /\ IF req.meeting.googleEventId # NoEvent /\ googleTokens
       THEN /\ CanDelete(req.meeting.googleEventId)
            /\ events' = DeleteEvent(events, req.meeting.googleEventId, gatewayOk)
            /\ lastCall' = Call("events.delete", tokens)
       ELSE /\ events' = events
            /\ lastCall' = NoCall
    /\ inflight' = [inflight EXCEPT ![r].pc = "saved"]
    /\ UNCHANGED <<windows, links, googleTokens, calendarBusy, bookings, now,
                   calendarEvents, calendarWebhooks, tokens, response>>

\* DELETE: await Booking.findByIdAndDelete(meetingId); 200
FinishDelete ==
  \E r \in DOMAIN inflight :
    LET req == inflight[r] IN
    /\ req.op = "delete" /\ req.pc = "saved"
    /\ bookings' = [bookings EXCEPT ![req.id] = NoDoc]
    /\ inflight' = [inflight EXCEPT ![r].pc = "done", ![r].answered = 200]
    /\ response' = [op |-> "delete", status |-> 200, id |-> req.id]
    /\ UNCHANGED <<windows, links, googleTokens, calendarBusy, now, events,
                   calendarEvents, calendarWebhooks, tokens, lastCall>>

NextConcurrent ==
  \/ BeginMeetingRequest
  \/ SaveMeeting
  \/ FinishUpdate
  \/ DeleteMeetingEvent
  \/ FinishDelete

SpecConcurrent == InitConcurrent /\ [][NextConcurrent]_vars

\* ---------------------------------------------------- claims: concurrency
\* C18 (as claimed): of two cancels or deletes of the same booking that both
\* read the same stored state, with the booking holding a calendar event, at
\* most one is answered as done; the other is told of the conflict.
C18_AsClaimed ==
  \A r1 \in DOMAIN inflight, r2 \in DOMAIN inflight :
    (/\ r1 # r2
     /\ inflight[r1].id = inflight[r2].id
     /\ inflight[r1].meeting = inflight[r2].meeting
     /\ inflight[r1].meeting.googleEventId # NoEvent
     /\ inflight[r1].status = "canceled"
     /\ inflight[r2].status = "canceled"
     /\ inflight[r1].pc = "done"
     /\ inflight[r2].pc = "done") =>
      ~(inflight[r1].answered = 200 /\ inflight[r2].answered = 200)

\* --------------------------------------- claims: reconciliation, the flags
Reconciled == response.op = "webhook" /\ response.reconciled

\* the two intervals share a point, endpoints included
Touches(aStart, aEnd, bStart, bEnd) == aStart <= bEnd /\ bStart <= aEnd

\* C19 (as claimed): after a reconciliation run every upcoming confirmed
\* booking that overlaps a fetched event is flagged with its details, and a
\* flagged one shares at least a point with some fetched event: a flag whose
\* conflict is gone has been cleared.  (Contact at an endpoint, which C2 is
\* about, is not held against a flag.)
C19_AsClaimed ==
  Reconciled =>
    \A id \in DOMAIN bookings :
      (bookings[id].startTime > now /\ bookings[id].status = "confirmed") =>
        /\ (\E event \in calendarEvents :
              overlaps(event.start, event.end,
                       bookings[id].startTime, bookings[id].endTime))
             => (bookings[id].hasCalendarConflict
                 /\ bookings[id].conflictDetails # {})
        /\ bookings[id].hasCalendarConflict =>
             \E event \in calendarEvents :
               Touches(event.start, event.end,
                       bookings[id].startTime, bookings[id].endTime)

\* C20 (as claimed): a reconciliation run that follows another on the same
\* calendar data changes no booking, and no run leaves an upcoming confirmed
\* booking flagged when no fetched event even touches it.
C20_Step ==
  (response'.op = "webhook" /\ response'.reconciled) =>
    /\ Reconciled => bookings' = bookings
    /\ \A id \in DOMAIN bookings :
         (/\ bookings'[id].startTime > now
          /\ bookings'[id].status = "confirmed"
          /\ bookings'[id].hasCalendarConflict) =>
           \E event \in calendarEvents' :
             Touches(event.start, event.end,
                     bookings'[id].startTime, bookings'[id].endTime)

C20_AsClaimed == [][C20_Step]_vars

\* C21 (as claimed): a notification only writes to bookings that start in the
\* future and are not canceled: a booking that is canceled, or already
\* started, when the run writes is left as it was.
C21_Step ==
  response'.op = "webhook" =>
    \A id \in DOMAIN bookings :
      (bookings[id].status = "canceled" \/ bookings[id].startTime <= now) =>
        bookings'[id] = bookings[id]

C21_AsClaimed == [][C21_Step]_vars

\* C30: a notification with an invalid token, an unregistered channel id or
\* resource state sync changes no booking and nothing of the owner's record;
\* a not_exists notification removes exactly the webhook of its channel id
\* and changes no booking and nothing else of the owner's record.
C30_Step ==
  response'.op = "webhook" =>
    LET registered == response'.tokenOk /\ response'.channelId \in calendarWebhooks
    IN  /\ (~registered \/ response'.resourceState = "sync") =>
             /\ bookings' = bookings
             /\ calendarWebhooks' = calendarWebhooks
             /\ tokens' = tokens /\ googleTokens' = googleTokens
        /\ (registered /\ response'.resourceState = "not_exists") =>
             /\ bookings' = bookings
             /\ calendarWebhooks' = calendarWebhooks \ {response'.channelId}
             /\ tokens' = tokens /\ googleTokens' = googleTokens

C30_FrameOfNotifications == [][C30_Step]_vars

C30_Witness ==
  /\ response.op = "webhook" /\ response.tokenOk
  /\ response.resourceState = "not_exists"
  /\ response.channelId = "channel-1"
  /\ calendarWebhooks = {"channel-2"}
  /\ \E id \in DOMAIN bookings : bookings[id].startTime > now

\* ------------------------------------- the other notification handlers
\* part_011 (second controller), handleWebhook: the headers are checked and
\* the owner looked up before anything is answered
ReceiveNotification ==
  \E hasIds \in BOOLEAN, channelId \in ChannelIds,
     eventType \in {"sync", "change", "other"} :
    LET answered == IF ~hasIds THEN 400
                    ELSE IF channelId \notin calendarWebhooks THEN 404
                    ELSE IF eventType \in {"sync", "change"} THEN 0
                    ELSE 200
    IN  /\ Len(inflight) < MaxRequests
        /\ inflight' = Append(inflight,
             [op |-> "notification", channelId |-> channelId,
              answered |-> answered,
              pc |-> IF answered = 0 THEN "processing" ELSE "done"])
        /\ UNCHANGED <<windows, links, googleTokens, calendarBusy, bookings, now,
                       events, calendarEvents, calendarWebhooks, tokens,
                       lastCall, response>>

\* getCalendarClient and events.list return or throw; the error is caught;
\* res.status(200).send('OK') comes last.  The stored credential is valid, so
\* refreshGoogleToken returns it as it is and nothing is re-registered.
ProcessingReturns ==
  \E r \in DOMAIN inflight, gatewayOk \in BOOLEAN :
    /\ inflight[r].op = "notification"
    /\ inflight[r].pc = "processing"
    /\ inflight' = [inflight EXCEPT ![r].pc = "done", ![r].answered = 200]
    /\ lastCall' = IF googleTokens THEN Call("events.list", tokens) ELSE NoCall
    /\ UNCHANGED <<windows, links, googleTokens, calendarBusy, bookings, now,
                   events, calendarEvents, calendarWebhooks, tokens, response>>

\* googleCalendarController.js, the second handleWebhook: looks the owner up,
\* logs, and answers 200
AcknowledgeWebhook ==
  \E channelId \in ChannelIds, state \in ResourceStates :
    /\ response' = [op |-> "webhookAck", status |-> 200,
                    channelId |-> channelId, resourceState |-> state]
    /\ lastCall' = NoCall
    /\ UNCHANGED <<windows, links, googleTokens, calendarBusy, bookings, now,
                   events, calendarEvents, calendarWebhooks, tokens, inflight>>

NextNotify ==
  \/ HandleWebhook
  \/ ReceiveNotification
  \/ ProcessingReturns
  \/ AcknowledgeWebhook

\* one upcoming confirmed booking and one overlapping event on the calendar
InitNotify ==
  /\ windows = <<>>
  /\ links = <<LinkDoc(60, 0, 0, FALSE, FALSE)>>
  /\ googleTokens = TRUE
  /\ calendarBusy = {}
  /\ bookings = <<BookingDoc(1, At(Monday, 10, 0), At(Monday, 11, 0), "confirmed")>>
  /\ now = At(0, 12, 0)
  /\ events = <<>>
  /\ calendarEvents =
       {[id |-> "overlapping", start |-> At(Monday, 10, 30), end |-> At(Monday, 11, 30)]}
  /\ calendarWebhooks = {"channel-1", "channel-2"}
  /\ tokens = ValidTokens
  /\ inflight = <<>>
  /\ lastCall = NoCall
  /\ response = [op |-> "none"]

SpecNotify == InitNotify /\ [][NextNotify]_vars

\* C22 (as claimed): every notification is answered 200, whatever its token,
\* channel or processing outcome, and a handler that is processing a
\* notification has already answered it.
C22_AsClaimed ==
  /\ response.op \in {"webhook", "webhookAck"} => response.status = 200
  /\ \A r \in DOMAIN inflight :
       inflight[r].op = "notification" =>
         /\ inflight[r].pc = "processing" => inflight[r].answered = 200
         /\ inflight[r].pc = "done" => inflight[r].answered = 200

\* ------------------------------- POST /api/schedule/:linkId, await by await
\* expirationDate: {type: Date} without a default: the link has none
NoDate == 0

\* a Link document with its usage limit and expiration (models/Link.js)
ScheduleLink(usageLimit, expirationDate) ==
  [usageLimit |-> usageLimit, expirationDate |-> expirationDate, active |-> TRUE]
    @@ LinkDoc(60, 0, 0, FALSE, FALSE)

UsageLimits == {0, 1}

ExpirationChoices == {NoDate, At(0, 11, 0), At(Tuesday, 0, 0)}

ScheduleTimes == {At(Monday, 10, 0), At(Monday, 10, 30)}

\* an owner without Google tokens, one link, no booking yet
InitSchedule ==
  /\ windows = <<WindowDoc("Monday", <<9, 0>>, <<12, 0>>, TRUE)>>
  /\ \E usageLimit \in UsageLimits, expirationDate \in ExpirationChoices :
       links = <<ScheduleLink(usageLimit, expirationDate)>>
  /\ googleTokens = FALSE
  /\ calendarBusy = {}
  /\ bookings = <<>>
  /\ now = At(0, 12, 0)
  /\ events = <<>>
  /\ calendarEvents = {}
  /\ calendarWebhooks = {}
  /\ tokens = ValidTokens
  /\ inflight = <<>>
  /\ lastCall = NoCall
  /\ response = [op |-> "none"]

\* Link.findOne({linkId}), the end time, User.findById(link.ownerId)
BeginSchedule ==
  \E linkId \in DOMAIN links \cup {UnknownLink}, selectedTime \in ScheduleTimes :
    /\ Len(inflight) < MaxRequests
    /\ inflight' = Append(inflight,
         IF linkId \notin DOMAIN links
         THEN [op |-> "schedule", pc |-> "done", linkId |-> linkId,
               answered |-> 404]
         ELSE [op |-> "schedule", pc |-> "saveBooking", linkId |-> linkId,
               link |-> links[linkId], startTime |-> selectedTime,
               endTime |-> selectedTime + links[linkId].meetingLength,
               answered |-> 0])
    /\ UNCHANGED <<windows, links, googleTokens, calendarBusy, bookings, now,
                   events, calendarEvents, calendarWebhooks, tokens, lastCall,
                   response>>

\* new Booking({...status: 'confirmed'}); await booking.save()
SaveBooking ==
  \E r \in DOMAIN inflight :
    /\ inflight[r].op = "schedule"
    /\ inflight[r].pc = "saveBooking"
    /\ bookings' = Append(bookings,
         PreSave(BookingDoc(inflight[r].linkId, inflight[r].startTime,
                            inflight[r].endTime, "confirmed")))
    /\ inflight' = [inflight EXCEPT ![r].pc = "saveLink"]
    /\ UNCHANGED <<windows, links, googleTokens, calendarBusy, now, events,
                   calendarEvents, calendarWebhooks, tokens, lastCall, response>>

\* link.usageCount = (link.usageCount || 0) + 1 on the document read at the
\* start; await link.save(); no calendar without tokens; res.status(201)
SaveLink ==
  \E r \in DOMAIN inflight :
    /\ inflight[r].op = "schedule"
    /\ inflight[r].pc = "saveLink"
    /\ links' = [links EXCEPT
         ![inflight[r].linkId].usageCount = inflight[r].link.usageCount + 1]
    /\ inflight' = [inflight EXCEPT ![r].pc = "done", ![r].answered = 201]
    /\ UNCHANGED <<windows, googleTokens, calendarBusy, bookings, now, events,
                   calendarEvents, calendarWebhooks, tokens, lastCall, response>>

NextSchedule ==
  \/ BeginSchedule
  \/ SaveBooking
  \/ SaveLink

SpecSchedule == InitSchedule /\ [][NextSchedule]_vars

\* ------------------------------------------------ claims: links, creation
\* C23 (as claimed): once every request has been answered, the link's
\* usageCount (zero at the start) equals the number of bookings made through
\* it, whatever the interleaving.
C23_AsClaimed ==
  (\A r \in DOMAIN inflight : inflight[r].pc = "done") =>
    links[1].usageCount =
      Cardinality({r \in DOMAIN inflight : inflight[r].answered = 201})

\* C24 (as claimed): no two stored bookings that are not canceled overlap.
C24_AsClaimed ==
  \A i \in DOMAIN bookings, j \in DOMAIN bookings :
    (i < j /\ bookings[i].status # "canceled" /\ bookings[j].status # "canceled") =>
      ~overlaps(bookings[i].startTime, bookings[i].endTime,
                bookings[j].startTime, bookings[j].endTime)

\* the link, as a handler read it, has reached its limit or has expired
Inactive(link) ==
  \/ link.usageLimit > 0 /\ link.usageCount >= link.usageLimit
  \/ link.expirationDate # NoDate /\ link.expirationDate <= now

\* C25 (as claimed): no booking is made through a link that was inactive when
\* the handler read it, and usageCount never exceeds a non-zero usageLimit.
C25_AsClaimed ==
  /\ \A r \in DOMAIN inflight :
       (inflight[r].op = "schedule" /\ inflight[r].answered = 201) =>
         ~Inactive(inflight[r].link)
  /\ \A l \in DOMAIN links :
       links[l].usageLimit > 0 => links[l].usageCount <= links[l].usageLimit

\* C26 (as claimed): every stored booking starts before it ends.
C26_AsClaimed ==
  \A id \in DOMAIN bookings : bookings[id].startTime < bookings[id].endTime

\* ------------------------------------ calendarService.js, called directly
\* createEvent(calendarId, eventData, isTentative): the status fields of the
\* caller's eventData are overwritten before the POST
createEvent_asSupplied(eventData, isTentative) == eventData
createEvent(eventData, isTentative) ==
  IF isTentative
  THEN [eventData EXCEPT !.status = "tentative", !.transparency = "transparent"]
  ELSE [eventData EXCEPT !.status = "confirmed", !.transparency = "opaque"]

\* confirmEvent(calendarId, eventId): PATCH of status and transparency
confirmEvent(evs, eventId) ==
  [evs EXCEPT ![eventId].status = "confirmed",
              ![eventId].transparency = "opaque"]

\* the eventData a caller may pass
EventDataChoices ==
  [status : {"confirmed", "tentative"}, transparency : {"opaque", "transparent"},
   deleted : {FALSE}, deleteCalls : {0}]

InitService ==
  /\ windows = <<>>
  /\ links = <<>>
  /\ googleTokens = TRUE
  /\ calendarBusy = {}
  /\ bookings = <<>>
  /\ now = At(0, 12, 0)
  /\ events = <<>>
  /\ calendarEvents = {}
  /\ calendarWebhooks = {}
  /\ tokens = ValidTokens
  /\ inflight = <<>>
  /\ lastCall = NoCall
  /\ response = [op |-> "none"]

ServiceCreateEvent ==
  \E eventData \in EventDataChoices, isTentative \in BOOLEAN,
     gatewayOk \in BOOLEAN :
    /\ Len(events) < MaxEvents
    /\ IF gatewayOk
       THEN /\ events' = Append(events, createEvent(eventData, isTentative))
            /\ response' = [op |-> "service.createEvent", status |-> 200,
                            eventId |-> Len(events) + 1,
                            isTentative |-> isTentative, eventData |-> eventData]
       ELSE /\ events' = events
            /\ response' = [op |-> "service.createEvent", status |-> 500,
                            eventId |-> NoEvent,
                            isTentative |-> isTentative, eventData |-> eventData]
    /\ UNCHANGED <<windows, links, googleTokens, calendarBusy, bookings, now,
                   calendarEvents, calendarWebhooks, tokens, inflight, lastCall>>

\* previous is the status the event had when the PATCH arrived
ServiceConfirmEvent ==
  \E eventId \in DOMAIN events, gatewayOk \in BOOLEAN :
    /\ IF gatewayOk /\ ~events[eventId].deleted
       THEN /\ events' = confirmEvent(events, eventId)
            /\ response' = [op |-> "service.confirmEvent", status |-> 200,
                            eventId |-> eventId,
                            previous |-> events[eventId].status]
       ELSE /\ events' = events
            /\ response' = [op |-> "service.confirmEvent", status |-> 500,
                            eventId |-> eventId,
                            previous |-> events[eventId].status]
    /\ UNCHANGED <<windows, links, googleTokens, calendarBusy, bookings, now,
                   calendarEvents, calendarWebhooks, tokens, inflight, lastCall>>

ServiceDeleteEvent ==
  \E eventId \in DOMAIN events, gatewayOk \in BOOLEAN :
    /\ CanDelete(eventId)
    /\ events' = DeleteEvent(events, eventId, gatewayOk)
    /\ response' = [op |-> "service.deleteEvent",
                    status |-> IF gatewayOk THEN 204 ELSE 500,
                    eventId |-> eventId]
    /\ UNCHANGED <<windows, links, googleTokens, calendarBusy, bookings, now,
                   calendarEvents, calendarWebhooks, tokens, inflight, lastCall>>

NextService ==
  \/ ServiceCreateEvent
  \/ ServiceConfirmEvent
  \/ ServiceDeleteEvent

SpecService == InitService /\ [][NextService]_vars

\* C27: a successful confirmEvent changes only the status and transparency
\* of the event it names, to confirmed and opaque: the event keeps its
\* identifier, no event is added, removed or deleted; and an event created
\* with isTentative is tentative and transparent whatever status and
\* transparency the caller's eventData carried.
C27_Step ==
  /\ (response'.op = "service.confirmEvent" /\ response'.status = 200) =>
       /\ DOMAIN events' = DOMAIN events
       /\ \A id \in DOMAIN events :
            events'[id] =
              IF id = response'.eventId
              THEN [events[id] EXCEPT !.status = "confirmed",
                                      !.transparency = "opaque"]
              ELSE events[id]
  /\ (/\ response'.op = "service.createEvent"
      /\ response'.status = 200
      /\ response'.isTentative) =>
       /\ Len(events') = Len(events) + 1
       /\ events'[response'.eventId].status = "tentative"
       /\ events'[response'.eventId].transparency = "transparent"
       /\ \A id \in DOMAIN events : events'[id] = events[id]

C27_PromotionInPlace == [][C27_Step]_vars

C27_Witness ==
  /\ response.op = "service.confirmEvent" /\ response.status = 200
  /\ response.previous = "tentative"
  /\ events[response.eventId].status = "confirmed"
  /\ events[response.eventId].transparency = "opaque"
  /\ ~events[response.eventId].deleted

\* C28 (as claimed): no slot returned by a slot query overlaps a stored
\* booking that is not canceled, wherever the booking lies relative to the
\* queried range.
C28_AsClaimed ==
  SlotsAnswered =>
    \A k \in DOMAIN response.data : \A booking \in NonCanceled :
      ~overlaps(response.data[k].start, response.data[k].end,
                booking.startTime, booking.endTime)

\* --------------------------- generateTimeSlots, one loop iteration a step
\* durationMinutes as a caller of getAvailableTimeSlots may pass it
Durations == {0, 30, 60}

\* windows that hold slots, end before they start, or are empty
LoopWindows ==
  { <<WindowDoc("Monday", <<9, 0>>, <<10, 0>>, TRUE)>>,
    <<WindowDoc("Monday", <<10, 0>>, <<9, 0>>, TRUE)>>,
    <<WindowDoc("Monday", <<9, 0>>, <<9, 0>>, TRUE)>>,
    <<WindowDoc("Tuesday", <<9, 0>>, <<10, 0>>, TRUE),
      WindowDoc("Tuesday", <<10, 0>>, <<9, 0>>, TRUE)>> }

\* the locals of generateTimeSlots at its entry: currentDate at midnight of
\* startDate, no slot pushed yet
LoopEntry(startDate, endDate, durationMinutes) ==
  [op |-> "generateTimeSlots", pc |-> "day",
   currentDate |-> StartOfDay(startDate), endDate |-> endDate,
   interval |-> durationMinutes, window |-> 1,
   slotStart |-> 0, windowEnd |-> 0, pushed |-> 0]

InitLoop ==
  /\ windows \in LoopWindows
  /\ links = <<>>
  /\ googleTokens = FALSE
  /\ calendarBusy = {}
  /\ bookings = <<>>
  /\ now = At(0, 12, 0)
  /\ events = <<>>
  /\ calendarEvents = {}
  /\ calendarWebhooks = {}
  /\ tokens = ValidTokens
  /\ \E durationMinutes \in Durations :
       inflight = <<LoopEntry(At(Monday, 8, 0), At(Tuesday, 23, 59), durationMinutes)>>
  /\ lastCall = NoCall
  /\ response = [op |-> "none"]

\* while (currentDate <= endDate): enter the day or return slots
DayStep ==
  LET loop == inflight[1] IN
    /\ loop.pc = "day"
    /\ inflight' = <<IF loop.currentDate <= loop.endDate
                     THEN [loop EXCEPT !.pc = "window", !.window = 1]
                     ELSE [loop EXCEPT !.pc = "done"]>>
    /\ UNCHANGED <<windows, links, googleTokens, calendarBusy, bookings, now,
                   events, calendarEvents, calendarWebhooks, tokens, lastCall,
                   response>>

\* for (const window of dayWindows): set windowStart and windowEnd, or move
\* to the next day
WindowStep ==
  LET loop == inflight[1]
      dws == dayWindows(windows, loop.currentDate)
  IN  /\ loop.pc = "window"
      /\ inflight' = <<IF loop.window \in DOMAIN dws
                       THEN [loop EXCEPT
                               !.pc = "slot",
                               !.slotStart = windowStart(dws[loop.window], loop.currentDate),
                               !.windowEnd = windowEnd(dws[loop.window], loop.currentDate)]
                       ELSE [loop EXCEPT
                               !.pc = "day",
                               !.currentDate = AddDays(loop.currentDate, 1)]>>
      /\ UNCHANGED <<windows, links, googleTokens, calendarBusy, bookings, now,
                     events, calendarEvents, calendarWebhooks, tokens, lastCall,
                     response>>

\* while (slotStart < windowEnd): break when the slot passes the window end,
\* else push the slot (nothing is booked or busy).  pushed counts the slots
\* of the array up to MaxSlots.
SlotStep ==
  LET loop == inflight[1]
      slotEnd == loop.slotStart + loop.interval
  IN  /\ loop.pc = "slot"
      /\ inflight' =
           <<IF ~(loop.slotStart < loop.windowEnd) \/ slotEnd > loop.windowEnd
             THEN [loop EXCEPT !.pc = "window", !.window = @ + 1]
             ELSE [loop EXCEPT
                     !.pc = "advance",
                     !.pushed = IF @ < MaxSlots THEN @ + 1 ELSE @]>>
      /\ UNCHANGED <<windows, links, googleTokens, calendarBusy, bookings, now,
                     events, calendarEvents, calendarWebhooks, tokens, lastCall,
                     response>>

\* slotStart = new Date(slotStart.getTime() + interval)
AdvanceStep ==
  LET loop == inflight[1] IN
    /\ loop.pc = "advance"
    /\ inflight' = <<[loop EXCEPT
                        !.pc = "slot",
                        !.slotStart = NextSlotStart(@, loop.interval)]>>
    /\ UNCHANGED <<windows, links, googleTokens, calendarBusy, bookings, now,
                   events, calendarEvents, calendarWebhooks, tokens, lastCall,
                   response>>

NextLoop ==
  \/ DayStep
  \/ WindowStep
  \/ SlotStep
  \/ AdvanceStep

SpecLoop == InitLoop /\ [][NextLoop]_vars

\* the function runs on: a step that can be taken is taken
SpecLoopFair == SpecLoop /\ WF_vars(NextLoop)

\* C29 (as claimed): generateTimeSlots returns, for every window and every
\* duration, zero included.
C29_AsClaimed == <>(inflight[1].pc = "done")
====
